---------------------------- MODULE Spec2Model ----------------------------
(***************************************************************************)
(* Model of the ONIST ship-routing backend (backend/app.py, backend/ports.py).*)
(*                                                                         *)
(* Units.  Angles are integers in quarter degrees (half a grid step), so   *)
(* that caller coordinates may lie between grid nodes.  Distances are      *)
(* integers in decametres.  The A* scores g and f are kept exact by        *)
(* scaling: weather_factor is held times 100 and 1/speed times 60, so a    *)
(* score s of the code is the integer s * 6000 here.                       *)
(***************************************************************************)
EXTENDS Integers, Sequences, FiniteSets, TLC

VARIABLES
    pc,           \* position of the request handler / of the function under check
    land_mask,    \* set of nodes <<i, j>> with land_mask[j, i] = True
    has_data,     \* optimize_route: request.json is truthy
    ship_type,    \* data.get('shipType')
    start_port,   \* data.get('startPort'): <<lon, lat>>
    end_port,     \* data.get('endPort')
    departure_date, \* data.get('departureDate')
    lat0,         \* lat[0] of the grid, in quarter degrees
    swh,          \* maritime_data['swh'], decimetres, per node
    ws,           \* maritime_data['ws'], knots, per node
    query,        \* find_nearest_water_node: <<start_i, start_j>>
    search_radius, \* find_nearest_water_node: search_radius
    found,        \* find_nearest_water_node's return value
    call,         \* find_nearest_water_node: the call it is answering
    valid_start,  \* optimize_route: valid_start, a_star: start
    valid_end,    \* optimize_route: valid_end, a_star: end
    speed,        \* a_star's speed argument, SPEED_SCALING[ship_type.lower()]
    open_set,     \* a_star: heap entries <<priority, node>>
    came_from,    \* a_star: node -> predecessor (NoNode: key absent)
    g_score,      \* a_star: node -> best known cost
    f_score,      \* a_star: node -> g + h (NoScore: key absent)
    current,      \* a_star: <<priority, node>> last popped
    path,         \* a_star's return value
    path_points,  \* smooth_path's argument
    smoothed_path, \* smooth_path's return value
    response,     \* what optimize_route returned
    ports,        \* PortsIndex.ports: sequence of <<lat, lon>>, whole degrees
    tree,         \* PortsIndex._tree is not None
    port_query,   \* find_nearest's arguments <<lat, lon>>
    port_result   \* what find_nearest returned or raised

requestVars == <<has_data, ship_type, start_port, end_port, departure_date>>
gridVars == <<lat0, swh, ws>>
escapeVars == <<query, search_radius, found, call>>
endpointVars == <<valid_start, valid_end, speed>>
searchVars == <<open_set, came_from, g_score, f_score, current>>
smoothVars == <<path_points, smoothed_path>>
portVars == <<ports, tree, port_query, port_result>>

vars == <<pc, land_mask, requestVars, gridVars, escapeVars, endpointVars,
          searchVars, path, smoothVars, response, portVars>>

---------------------------------------------------------------------------
(* Bounds of the model *)

\* number of longitude samples of the grid (len(lon))
NumLon == 4
\* number of latitude samples of the grid (len(lat))
NumLat == 3

---------------------------------------------------------------------------
(* Grid: app.py lines 46, 182-183 *)

GRID_RESOLUTION == 2
LonMin == -720
LatMin == -360

Nodes == (0 .. NumLon - 1) \X (0 .. NumLat - 1)

\* Python's None, where a string, a node, a heap entry or a path is expected
\* (a_star never returns an empty list: a path always holds start)
None == "None"
NoNode == <<-1, -1>>
NoEntry == <<-1, NoNode>>
NoPath == <<>>
NoPoint == <<>>
NoResponse == [status |-> 0]

\* the state of the parts of the program a function under check does not use
NoRequest ==
    /\ has_data = FALSE /\ ship_type = None /\ start_port = NoPoint
    /\ end_port = NoPoint /\ departure_date = None /\ response = NoResponse
NoEscape ==
    query = NoNode /\ search_radius = 0 /\ found = NoNode /\ call = None
NoSearch ==
    /\ open_set = {} /\ came_from = <<>> /\ g_score = <<>> /\ f_score = <<>>
    /\ current = NoEntry /\ path = NoPath
NoSmoothing == path_points = <<>> /\ smoothed_path = <<>>
NoResult == [distance_km |-> -1]
NoPorts ==
    /\ ports = <<>> /\ tree = FALSE /\ port_query = NoPoint
    /\ port_result = NoResult
NoScore == -1
Inf == 2000000000

Lon(i) == LonMin + GRID_RESOLUTION * i
Lat(j) == lat0 + GRID_RESOLUTION * j

---------------------------------------------------------------------------
(* haversine: app.py lines 102-109 *)

Abs(x) == IF x < 0 THEN -x ELSE x
Max(a, b) == IF a > b THEN a ELSE b
Min(a, b) == IF a < b THEN a ELSE b

RECURSIVE SqrtBetween(_, _, _)
SqrtBetween(n, lo, hi) ==
    IF lo >= hi THEN lo
    ELSE LET mid == (lo + hi + 1) \div 2
         IN  IF mid * mid <= n THEN SqrtBetween(n, mid, hi)
                               ELSE SqrtBetween(n, lo, mid - 1)

\* floor of the square root, for 0 <= n < 2^31
ISqrt(n) == SqrtBetween(n, 0, 46340)

\* 10^4 * cos(latitude), for the latitudes of the model's grids: the first
\* rows of the world grid (from -90 degrees) and the rows from the equator.
PolarCos == <<0, 44, 87, 131, 175, 218, 262, 305, 349, 393, 436, 480, 523,
              567, 610, 654, 698>>
EquatorCos == <<10000, 10000, 10000, 9999, 9998, 9998, 9997, 9995, 9994,
                9992, 9990, 9988, 9986, 9984, 9981, 9979, 9976>>

Cos4(latq) ==
    IF latq < -180 THEN PolarCos[latq - LatMin + 1]
                   ELSE EquatorCos[Abs(latq) + 1]

\* R * (a quarter degree in radians), in decametres: 6371 km * pi / 720
QuarterDegreeDam == 2780

\* The haversine formula for points a few degrees apart:
\*   a = sin^2(dlat/2) + cos(lat1) cos(lat2) sin^2(dlon/2),  c = 2 atan2(..)
\* with sin x = x and atan x = x (the points are at most a few degrees apart),
\* rounded down to the decametre.
haversine(lon1, lat1, lon2, lat2) ==
    LET dlon == Abs(lon2 - lon1)
        dlat == Abs(lat2 - lat1)
        ns   == QuarterDegreeDam * dlat
        ew   == (QuarterDegreeDam * dlon * ISqrt(Cos4(lat1) * Cos4(lat2)))
                    \div 10000
    IN  ISqrt(ns * ns + ew * ew)

\* The quarter-degree latitudes the model's grids and requests can hold:
\* the first rows of the world grid, and the rows from the equator.
PolarLatQs == LatMin .. LatMin + GRID_RESOLUTION * NumLat + 1
EquatorLatQs == 0 .. GRID_RESOLUTION * NumLat + 1

\* haversine, evaluated once for every pair of coordinates of the model
\* (@@ makes TLC hold the table as an explicit function)
HaversineTable ==
    [t \in (0 .. GRID_RESOLUTION * NumLon) \X
           ((PolarLatQs \X PolarLatQs) \cup (EquatorLatQs \X EquatorLatQs))
        |-> haversine(0, t[2][1], t[1], t[2][2])] @@ <<>>

Hav(lon1, lat1, lon2, lat2) ==
    HaversineTable[<<Abs(lon2 - lon1), <<lat1, lat2>>>>]

---------------------------------------------------------------------------
(* find_nearest_water_node: app.py lines 127-136 *)

InBounds(i, j) == 0 <= i /\ i < NumLon /\ 0 <= j /\ j < NumLat

\* order of the two nested range() loops of lines 131-132: i outer, j inner
ScanBefore(n, m) == n[1] < m[1] \/ (n[1] = m[1] /\ n[2] < m[2])

\* (mutant) lines 131-134 without the land_mask test of line 133
ScanSquareIgnoringLand(q, r) ==
    LET hits == {n \in Nodes : Abs(n[1] - q[1]) <= r /\ Abs(n[2] - q[2]) <= r}
    IN  IF hits = {} THEN NoNode
        ELSE CHOOSE n \in hits : \A m \in hits \ {n} : ScanBefore(n, m)

\* lines 131-134: the first in-bounds non-land node of the square of half
\* width r around q, in scan order (NoNode: the loops end without a return)
ScanSquare(q, r) ==
    LET hits == {n \in (q[1] - r .. q[1] + r) \X (q[2] - r .. q[2] + r) :
                    InBounds(n[1], n[2]) /\ n \notin land_mask}
    IN  IF hits = {} THEN NoNode
        ELSE CHOOSE n \in hits : \A m \in hits \ {n} : ScanBefore(n, m)

\* (mutant) line 130 with min for max
SearchLimitMin == Min(NumLon, NumLat)

\* line 130: max(num_lon, num_lat)
SearchLimit == Max(NumLon, NumLat)

\* line 128: the query node is not land
EscapeReturnQuery ==
    /\ pc = "escape"
    /\ query \notin land_mask
    /\ found' = query
    /\ pc' = "escape_returned"
    /\ UNCHANGED <<portVars, land_mask, requestVars, gridVars, query, search_radius, call,
                   endpointVars, searchVars, path, smoothVars, response>>

\* lines 128-129: the query node is land
EscapeBeginSearch ==
    /\ pc = "escape"
    /\ query \in land_mask
    /\ search_radius' = 1
    /\ pc' = "escape_loop"
    /\ UNCHANGED <<portVars, land_mask, requestVars, gridVars, query, found, call,
                   endpointVars, searchVars, path, smoothVars, response>>

\* lines 130-135: one iteration of the while loop
EscapeRing ==
    /\ pc = "escape_loop"
    /\ search_radius < SearchLimit
    /\ LET hit == ScanSquare(query, search_radius)
       IN  IF hit # NoNode
           THEN found' = hit /\ pc' = "escape_returned"
                /\ UNCHANGED search_radius
           ELSE search_radius' = search_radius + 1
                /\ UNCHANGED <<found, pc>>
    /\ UNCHANGED <<portVars, land_mask, requestVars, gridVars, query, call, endpointVars,
                   searchVars, path, smoothVars, response>>

\* lines 130, 136: the radius has reached the limit
EscapeFail ==
    /\ pc = "escape_loop"
    /\ ~(search_radius < SearchLimit)
    /\ found' = NoNode
    /\ pc' = "escape_returned"
    /\ UNCHANGED <<portVars, land_mask, requestVars, gridVars, query, search_radius, call,
                   endpointVars, searchVars, path, smoothVars, response>>

Escape ==
    EscapeReturnQuery \/ EscapeBeginSearch \/ EscapeRing \/ EscapeFail

---------------------------------------------------------------------------
(* a_star: app.py lines 138-170 *)

SPEED_SCALING ==
    [t \in {"passenger ship", "cargo ship", "tanker"} |->
        CASE t = "passenger ship" -> 20
          [] t = "cargo ship"     -> 15
          [] t = "tanker"         -> 10]

Speeds == {SPEED_SCALING[t] : t \in DOMAIN SPEED_SCALING}

\* the eight offsets of line 157
Offsets == {<<0, 1>>, <<0, -1>>, <<1, 0>>, <<-1, 0>>,
            <<1, 1>>, <<1, -1>>, <<-1, 1>>, <<-1, -1>>}

\* (mutant) line 159 without its land_mask test
NeighborsIgnoringLand(n) ==
    {<<n[1] + d[1], n[2] + d[2]>> : d \in Offsets} \cap Nodes

\* line 159: the neighbours of a node the loop body is entered for
Neighbors(n) ==
    {<<n[1] + d[1], n[2] + d[2]>> : d \in Offsets} \cap
        {m \in Nodes : m \notin land_mask}

\* line 162, times 100
weather_factor(n) == 100 + swh[n] + 5 * ws[n]

\* lines 161-164: cost / speed of the edge from n to m, times 6000
EdgeCost(n, m) ==
    Hav(Lon(n[1]), Lat(n[2]), Lon(m[1]), Lat(m[2])) * weather_factor(m)
        * (60 \div speed)

\* lines 146, 167: haversine to the goal, not divided by speed, times 6000
Heuristic(n) ==
    Hav(Lon(n[1]), Lat(n[2]), Lon(valid_end[1]), Lat(valid_end[2])) * 6000

\* tuple order of Python on (priority, (i, j))
EntryLess(a, b) ==
    \/ a[1] < b[1]
    \/ a[1] = b[1] /\ a[2][1] < b[2][1]
    \/ a[1] = b[1] /\ a[2][1] = b[2][1] /\ a[2][2] < b[2][2]

\* line 149: heapq.heappop returns the least entry
HeapTop(heap) == CHOOSE e \in heap : \A o \in heap \ {e} : EntryLess(e, o)

\* (mutant) line 149 reading the least entry and leaving it in the heap
HeapRestKeepingTop(heap) == heap

\* line 149: what heapq.heappop leaves in the heap
HeapRest(heap) == heap \ {HeapTop(heap)}

\* line 168: [item[1] for item in open_set]
OpenNodes(heap) == {e[2] : e \in heap}

\* line 164
Tentative(n, m) == g_score[n] + EdgeCost(n, m)

\* line 165: the neighbours whose g_score the loop body lowers
Improved(n) == {m \in Neighbors(n) : Tentative(n, m) < g_score[m]}

RECURSIVE WalkBack(_, _, _)
\* line 152: the nodes appended while current is a key of came_from
WalkBack(n, came, fuel) ==
    IF came[n] = NoNode THEN <<>>
    ELSE IF fuel = 0 THEN <<NoNode>>
    ELSE <<n>> \o WalkBack(came[n], came, fuel - 1)

Reverse(s) == [k \in 1 .. Len(s) |-> s[Len(s) + 1 - k]]

\* (mutant) lines 151-154 without the reversal of line 154
ReconstructPathNotReversed(n, came) ==
    WalkBack(n, came, NumLon * NumLat) \o <<valid_start>>

\* lines 151-154
ReconstructPath(n, came) ==
    Reverse(WalkBack(n, came, NumLon * NumLat) \o <<valid_start>>)

\* lines 139-146
AStarBegin ==
    /\ pc = "a_star"
    /\ open_set' = {<<0, valid_start>>}
    /\ came_from' = [n \in Nodes |-> NoNode]
    /\ g_score' = [n \in Nodes |-> IF n = valid_start THEN 0 ELSE Inf]
    /\ f_score' = [n \in Nodes |->
                     IF n = valid_start THEN Heuristic(n) ELSE NoScore]
    /\ pc' = "a_star_loop"
    /\ UNCHANGED <<portVars, land_mask, requestVars, gridVars, escapeVars, endpointVars,
                   current, path, smoothVars, response>>

\* lines 148-149, 156-169: one iteration of the while loop, the goal not popped
AStarExpand ==
    /\ pc = "a_star_loop"
    /\ open_set # {}
    /\ LET top  == HeapTop(open_set)
           n    == top[2]
           rest == HeapRest(open_set)
           imp  == Improved(n)
       IN  /\ n # valid_end
           /\ current' = top
           /\ came_from' = [m \in Nodes |->
                              IF m \in imp THEN n ELSE came_from[m]]
           /\ g_score' = [m \in Nodes |->
                            IF m \in imp THEN Tentative(n, m) ELSE g_score[m]]
           /\ f_score' = [m \in Nodes |->
                            IF m \in imp THEN Tentative(n, m) + Heuristic(m)
                                         ELSE f_score[m]]
           /\ open_set' = rest \cup
                  {<<Tentative(n, m) + Heuristic(m), m>> :
                       m \in imp \ OpenNodes(rest)}
    /\ UNCHANGED <<portVars, pc, land_mask, requestVars, gridVars, escapeVars,
                   endpointVars, path, smoothVars, response>>

\* lines 148-154: the goal is popped and the path is returned
AStarReturnPath ==
    /\ pc = "a_star_loop"
    /\ open_set # {}
    /\ LET top == HeapTop(open_set)
       IN  /\ top[2] = valid_end
           /\ current' = top
           /\ open_set' = HeapRest(open_set)
           /\ path' = ReconstructPath(top[2], came_from)
    /\ pc' = "a_star_returned"
    /\ UNCHANGED <<portVars, land_mask, requestVars, gridVars, escapeVars, endpointVars,
                   came_from, g_score, f_score, smoothVars, response>>

\* lines 148, 170: the frontier is empty
AStarReturnNone ==
    /\ pc = "a_star_loop"
    /\ open_set = {}
    /\ path' = NoPath
    /\ pc' = "a_star_returned"
    /\ UNCHANGED <<portVars, land_mask, requestVars, gridVars, escapeVars, endpointVars,
                   searchVars, smoothVars, response>>

---------------------------------------------------------------------------
(* The inputs of a_star *)

\* create_land_mask (app.py lines 88-98) marks the nodes that a land polygon
\* contains.  The polygons of the model: an atoll around a lagoon node, and
\* a barrier across the second column of the grid with at most one strait.
Atoll(c) ==
    {n \in Nodes : n # c /\ Abs(n[1] - c[1]) <= 1 /\ Abs(n[2] - c[2]) <= 1}
Barrier(i, strait) == {n \in Nodes : n[1] = i /\ n[2] # strait}

LandMasks ==
    {{}} \cup {Atoll(c) : c \in Nodes}
         \cup {Barrier(1, g) : g \in 0 .. NumLat}

\* the same, and each with land and water exchanged, and the grids with one
\* water node only
EscapeMasks ==
    LandMasks \cup {Nodes \ m : m \in LandMasks}
              \cup {Nodes \ {c} : c \in Nodes}

\* simulate_maritime_data adds Gaussian bumps to a background field
\* (marinetime_data.py lines 37-49, 54-64): a calm background, and a storm
\* over the nodes of a patch.  Wave height in decimetres, wind in knots.
CalmSwh == 5
CalmWs == 5
StormSwh == 35
StormWs == 25

WeatherOf(storm) ==
    [swhf |-> [n \in Nodes |-> IF n \in storm THEN StormSwh ELSE CalmSwh],
     wsf  |-> [n \in Nodes |-> IF n \in storm THEN StormWs ELSE CalmWs]]

Storms == {{}, {<<1, 1>>}}

InitAStar ==
    /\ pc = "a_star"
    /\ lat0 = 0
    /\ NoPorts
    /\ NoRequest /\ NoEscape /\ NoSearch /\ NoSmoothing
    /\ land_mask \in LandMasks
    /\ \E st \in Storms : swh = WeatherOf(st).swhf /\ ws = WeatherOf(st).wsf
    /\ valid_start \in Nodes \ land_mask
    /\ valid_end \in Nodes \ land_mask
    /\ speed \in Speeds

\* find_nearest_water_node called on any node of any of the grids
InitEscape ==
    /\ pc = "escape"
    /\ lat0 = LatMin /\ swh = <<>> /\ ws = <<>>
    /\ NoPorts
    /\ NoRequest /\ NoSearch /\ NoSmoothing
    /\ land_mask \in EscapeMasks
    /\ query \in Nodes /\ search_radius = 0 /\ found = NoNode /\ call = "direct"
    /\ valid_start = NoNode /\ valid_end = NoNode /\ speed = 0

SpecEscape == InitEscape /\ [][Escape]_vars

NextAStar == AStarBegin \/ AStarExpand \/ AStarReturnPath \/ AStarReturnNone

SpecAStar == InitAStar /\ [][NextAStar]_vars

\* the calls of a_star termination is checked on: those for a tanker
InitAStarFair == InitAStar /\ speed = SPEED_SCALING["tanker"]

\* a_star is sequential code: while a step of it can be taken, one is taken
SpecAStarFair ==
    InitAStarFair /\ [][NextAStar]_vars /\ WF_vars(NextAStar)

---------------------------------------------------------------------------
(* smooth_path: app.py lines 116-125 *)

\* the default of the num_points parameter, line 116
NumPoints == 100

\* lines 119-121: the point of index k (from 1) of the resampled spline.  The
\* fit itself is SciPy's; the model takes the polygon through the points,
\* resampled at even parameter steps, moved by the residual the smoothing fit
\* (s=1.0) leaves, which need not be zero at the two ends.
SplinePoint(pts, k, residual) ==
    LET n    == Len(pts)
        pos  == (k - 1) * (n - 1)
        seg  == Min(pos \div (NumPoints - 1) + 1, n - 1)
        part == pos - (seg - 1) * (NumPoints - 1)
    IN  <<pts[seg][1] + ((pts[seg + 1][1] - pts[seg][1]) * part)
                            \div (NumPoints - 1) + residual,
          pts[seg][2] + ((pts[seg + 1][2] - pts[seg][2]) * part)
                            \div (NumPoints - 1) + residual>>

\* (mutant) lines 118-125 without the assignment of line 124
SmoothedWithoutEndpoints(pts, residual) ==
    [k \in 1 .. NumPoints |-> SplinePoint(pts, k, residual)]

\* lines 118-125: the resampled spline, its two ends set to the input's
Smoothed(pts, residual) ==
    [k \in 1 .. NumPoints |->
        IF k = 1 THEN pts[1]
        ELSE IF k = NumPoints THEN pts[Len(pts)]
        ELSE SplinePoint(pts, k, residual)]

\* the residuals of the fit the model draws from
Residuals == {0, 1}

\* line 119: splprep rejects two equal consecutive points
Degenerate(pts) == \E k \in 1 .. Len(pts) - 1 : pts[k] = pts[k + 1]

ErrorResponse(status, message) == [status |-> status, error |-> message]

\* line 117: fewer than 4 points are returned as they are
SmoothPassThrough ==
    /\ pc = "smooth_path"
    /\ Len(path_points) < 4
    /\ smoothed_path' = path_points
    /\ pc' = "smoothed"
    /\ UNCHANGED <<portVars, land_mask, requestVars, gridVars, escapeVars, endpointVars,
                   searchVars, path, path_points, response>>

\* lines 118-125
SmoothSpline ==
    /\ pc = "smooth_path"
    /\ Len(path_points) >= 4
    /\ ~Degenerate(path_points)
    /\ \E residual \in Residuals :
           smoothed_path' = Smoothed(path_points, residual)
    /\ pc' = "smoothed"
    /\ UNCHANGED <<portVars, land_mask, requestVars, gridVars, escapeVars, endpointVars,
                   searchVars, path, path_points, response>>

\* line 119 raises; inside optimize_route lines 220-224 answer 500
SmoothRaises ==
    /\ pc = "smooth_path"
    /\ Len(path_points) >= 4
    /\ Degenerate(path_points)
    /\ pc' = IF has_data THEN "responded" ELSE "raised"
    /\ response' = IF has_data THEN ErrorResponse(500, "Invalid inputs.")
                               ELSE response
    /\ UNCHANGED <<portVars, land_mask, requestVars, gridVars, escapeVars, endpointVars,
                   searchVars, path, smoothVars>>

SmoothPath == SmoothPassThrough \/ SmoothSpline \/ SmoothRaises

---------------------------------------------------------------------------
(* optimize_route: app.py lines 173-224 *)

\* ship_type.lower(), on the ship types of the model's requests
Lower(t) == IF t = "Cargo Ship" THEN "cargo ship" ELSE t

ShipTypes == {"passenger ship", "Cargo Ship", "tanker", "yacht"}

\* the coordinates of the model's requests, in quarter degrees: on grid
\* nodes and between them
RequestPoints ==
    {<<LonMin + a, LatMin + b>> : a \in {0, 1, 4, 6}, b \in {2, 3}}

\* lines 112-113: argmin(), the first index of the least entry
ArgMin(d) ==
    CHOOSE i \in DOMAIN d :
        /\ \A k \in DOMAIN d : d[i] <= d[k]
        /\ \A k \in DOMAIN d : k < i => d[k] > d[i]

\* lines 111-114: per axis, np.abs(array - val).argmin()
find_nearest_index(point) ==
    <<ArgMin([i \in 0 .. NumLon - 1 |-> Abs(Lon(i) - point[1])]),
      ArgMin([j \in 0 .. NumLat - 1 |-> Abs(Lat(j) - point[2])])>>

\* line 178: all([ship_type, start_port, end_port, departure_date])
AllFields ==
    /\ ship_type # None /\ start_port # NoPoint /\ end_port # NoPoint
    /\ departure_date # None

\* line 199
OnLandResponse ==
    ErrorResponse(400,
        "Start or end point is on land. Please select points in the water.")

\* (mutant) line 204 with the message of line 199
NoRouteResponseAsOnLand ==
    ErrorResponse(404,
        "Start or end point is on land. Please select points in the water.")

\* line 204
NoRouteResponse ==
    ErrorResponse(404,
        "No viable route found. The destination may be unreachable.")

\* lines 175-177: a request arrives
Receive ==
    /\ pc = "idle"
    /\ \/ /\ has_data' = FALSE
          /\ ship_type' = None /\ start_port' = NoPoint /\ end_port' = NoPoint
          /\ departure_date' = None
       \/ /\ has_data' = TRUE
          /\ ship_type' \in ShipTypes \cup {None}
          /\ start_port' \in RequestPoints
          /\ end_port' \in RequestPoints
          /\ departure_date' \in {"2025-01-01", None}
          /\ ship_type' = None => departure_date' # None
       \/ /\ has_data' = TRUE
          /\ ship_type' = "tanker" /\ departure_date' = "2025-01-01"
          /\ \E pt \in RequestPoints :
                \/ start_port' = NoPoint /\ end_port' = pt
                \/ start_port' = pt /\ end_port' = NoPoint
    /\ pc' = "received"
    /\ UNCHANGED <<portVars, land_mask, gridVars, escapeVars, endpointVars, searchVars,
                   path, smoothVars, response>>

\* line 176
RejectNoData ==
    /\ pc = "received"
    /\ ~has_data
    /\ response' = ErrorResponse(400, "No data provided")
    /\ pc' = "responded"
    /\ UNCHANGED <<portVars, land_mask, requestVars, gridVars, escapeVars, endpointVars,
                   searchVars, path, smoothVars>>

\* line 178
RejectMissingFields ==
    /\ pc = "received"
    /\ has_data /\ ~AllFields
    /\ response' = ErrorResponse(400, "Missing required fields")
    /\ pc' = "responded"
    /\ UNCHANGED <<portVars, land_mask, requestVars, gridVars, escapeVars, endpointVars,
                   searchVars, path, smoothVars>>

\* lines 182-195: the grid, the weather, the indices of the two points, and
\* the call of find_nearest_water_node for the start
Prepare ==
    /\ pc = "received"
    /\ has_data /\ AllFields
    /\ lat0' = LatMin
    /\ \E st \in Storms : swh' = WeatherOf(st).swhf /\ ws' = WeatherOf(st).wsf
    /\ query' = find_nearest_index(start_port)
    /\ search_radius' = 0 /\ found' = NoNode /\ call' = "start"
    /\ pc' = "escape"
    /\ UNCHANGED <<portVars, land_mask, requestVars, endpointVars, searchVars, path,
                   smoothVars, response>>

\* lines 195-196: valid_start is assigned, find_nearest_water_node is called
\* for the end
ReturnValidStart ==
    /\ pc = "escape_returned" /\ call = "start"
    /\ valid_start' = found
    /\ query' = find_nearest_index(end_port)
    /\ search_radius' = 0 /\ found' = NoNode /\ call' = "end"
    /\ pc' = "escape"
    /\ UNCHANGED <<portVars, land_mask, requestVars, gridVars, valid_end, speed,
                   searchVars, path, smoothVars, response>>

\* line 196: valid_end is assigned
ReturnValidEnd ==
    /\ pc = "escape_returned" /\ call = "end"
    /\ valid_end' = found
    /\ pc' = "endpoints"
    /\ UNCHANGED <<portVars, land_mask, requestVars, gridVars, escapeVars, valid_start,
                   speed, searchVars, path, smoothVars, response>>

\* line 198: not valid_start or not valid_end (a node tuple is truthy)
EndpointMissing == valid_start = NoNode \/ valid_end = NoNode

\* lines 198-199
RejectOnLand ==
    /\ pc = "endpoints"
    /\ EndpointMissing
    /\ response' = OnLandResponse
    /\ pc' = "responded"
    /\ UNCHANGED <<portVars, land_mask, requestVars, gridVars, escapeVars, endpointVars,
                   searchVars, path, smoothVars>>

\* line 202, lines 220-224: SPEED_SCALING has no such key; the KeyError is
\* caught and answered with status 500
SpeedKeyError ==
    /\ pc = "endpoints"
    /\ ~EndpointMissing
    /\ Lower(ship_type) \notin DOMAIN SPEED_SCALING
    /\ response' = ErrorResponse(500, Lower(ship_type))
    /\ pc' = "responded"
    /\ UNCHANGED <<portVars, land_mask, requestVars, gridVars, escapeVars, endpointVars,
                   searchVars, path, smoothVars>>

\* line 202: a_star is called
CallAStar ==
    /\ pc = "endpoints"
    /\ ~EndpointMissing
    /\ Lower(ship_type) \in DOMAIN SPEED_SCALING
    /\ speed' = SPEED_SCALING[Lower(ship_type)]
    /\ pc' = "a_star"
    /\ UNCHANGED <<portVars, land_mask, requestVars, gridVars, escapeVars, valid_start,
                   valid_end, searchVars, path, smoothVars, response>>

\* line 204
RejectNoRoute ==
    /\ pc = "a_star_returned" /\ has_data
    /\ path = NoPath
    /\ response' = NoRouteResponse
    /\ pc' = "responded"
    /\ UNCHANGED <<portVars, land_mask, requestVars, gridVars, escapeVars, endpointVars,
                   searchVars, path, smoothVars>>

\* line 207
PathCoords(p) == [k \in 1 .. Len(p) |-> <<Lon(p[k][1]), Lat(p[k][2])>>]

\* (mutant) line 208 with path_coords for path_coords[1:-1]
FinalPathPointsKeepingEnds(p) ==
    <<start_port>> \o PathCoords(p) \o <<end_port>>

\* line 208
FinalPathPoints(p) ==
    <<start_port>>
        \o (IF Len(p) > 2 THEN SubSeq(PathCoords(p), 2, Len(p) - 1) ELSE <<>>)
        \o <<end_port>>

\* lines 207-209: smooth_path is called
CallSmoothPath ==
    /\ pc = "a_star_returned" /\ has_data
    /\ path # NoPath
    /\ path_points' = FinalPathPoints(path)
    /\ pc' = "smooth_path"
    /\ UNCHANGED <<portVars, land_mask, requestVars, gridVars, escapeVars, endpointVars,
                   searchVars, path, smoothed_path, response>>

RECURSIVE SumSegments(_, _)
SumSegments(route, k) ==
    IF k >= Len(route) THEN 0
    ELSE Hav(route[k][1], route[k][2], route[k + 1][1], route[k + 1][2])
             + SumSegments(route, k + 1)

\* line 211, in decametres
TotalDistance(route) == SumSegments(route, 1)

\* lines 211-218
Respond ==
    /\ pc = "smoothed" /\ has_data
    /\ response' = [status          |-> 200,
                    optimized_route |-> smoothed_path,
                    distance        |-> TotalDistance(smoothed_path),
                    num_steps       |-> Len(smoothed_path),
                    start_port      |-> start_port,
                    end_port        |-> end_port]
    /\ pc' = "responded"
    /\ UNCHANGED <<portVars, land_mask, requestVars, gridVars, escapeVars, endpointVars,
                   searchVars, path, smoothVars>>

\* the land the service has loaded (lines 85-86): the grids of a_star, and a
\* grid of land only
ServiceMasks == LandMasks \cup {Nodes}

\* the service after start-up, waiting for a request
InitService ==
    /\ pc = "idle"
    /\ land_mask \in ServiceMasks
    /\ lat0 = LatMin /\ swh = <<>> /\ ws = <<>>
    /\ NoPorts
    /\ NoRequest /\ NoEscape /\ NoSearch /\ NoSmoothing
    /\ valid_start = NoNode /\ valid_end = NoNode /\ speed = 0

\* the points of the direct calls of smooth_path
DirectPoints ==
    {<<LonMin, LatMin + 2>>, <<LonMin + 4, LatMin + 2>>,
     <<LonMin + 6, LatMin + 3>>}

\* longest list of points of a direct call of smooth_path
MaxDirectPoints == 4

\* smooth_path called on any list of one or more points
InitSmoothPath ==
    /\ pc = "smooth_path"
    /\ land_mask = {}
    /\ lat0 = LatMin /\ swh = <<>> /\ ws = <<>>
    /\ NoPorts
    /\ NoRequest /\ NoEscape /\ NoSearch
    /\ valid_start = NoNode /\ valid_end = NoNode /\ speed = 0
    /\ path_points \in UNION {[1 .. n -> DirectPoints] :
                                  n \in 1 .. MaxDirectPoints}
    /\ smoothed_path = <<>>

Init == InitService \/ InitSmoothPath

Next ==
    \/ Receive \/ RejectNoData \/ RejectMissingFields \/ Prepare
    \/ Escape \/ ReturnValidStart \/ ReturnValidEnd
    \/ RejectOnLand \/ SpeedKeyError \/ CallAStar
    \/ NextAStar
    \/ RejectNoRoute \/ CallSmoothPath
    \/ SmoothPath
    \/ Respond

Spec == Init /\ [][Next]_vars

---------------------------------------------------------------------------
(* ports.py.  Here angles are whole degrees, the model's coordinates are   *)
(* even, and sines are integers, 10^4 times the value.                     *)

\* math.sin of 0, 1, ..., 90 degrees
SinDeg ==
    <<
      0, 175, 349, 523, 698, 872, 1045, 1219, 1392, 1564,
      1736, 1908, 2079, 2250, 2419, 2588, 2756, 2924, 3090, 3256,
      3420, 3584, 3746, 3907, 4067, 4226, 4384, 4540, 4695, 4848,
      5000, 5150, 5299, 5446, 5592, 5736, 5878, 6018, 6157, 6293,
      6428, 6561, 6691, 6820, 6947, 7071, 7193, 7314, 7431, 7547,
      7660, 7771, 7880, 7986, 8090, 8192, 8290, 8387, 8480, 8572,
      8660, 8746, 8829, 8910, 8988, 9063, 9135, 9205, 9272, 9336,
      9397, 9455, 9511, 9563, 9613, 9659, 9703, 9744, 9781, 9816,
      9848, 9877, 9903, 9925, 9945, 9962, 9976, 9986, 9994, 9998,
      10000>>

Sin(d) ==
    LET m == d % 360
    IN  IF m <= 90 THEN SinDeg[m + 1]
        ELSE IF m <= 180 THEN SinDeg[180 - m + 1]
        ELSE IF m <= 270 THEN -SinDeg[m - 180 + 1]
        ELSE -SinDeg[360 - m + 1]

Cos(d) == Sin(d + 90)

\* the unit of the sines
Unit == 10000

\* line 24: a, times 10^8
HaversineA(lon1, lat1, lon2, lat2) ==
    LET sphi == Sin((lat2 - lat1) \div 2)
        slam == Sin((lon2 - lon1) \div 2)
    IN  sphi * sphi
            + ((Cos(lat1) * Cos(lat2)) \div Unit) * ((slam * slam) \div Unit)

\* the even latitudes at which lines 19-24 in IEEE double arithmetic give
\* a = 1 + 2^-52 for a point and its antipode, where a is 1
Float64AboveOne == {8, 12, 82}

\* line 25: math.sqrt(1-a) raises ValueError when a > 1
DomainError(lon1, lat1, lon2, lat2) ==
    /\ lat2 = -lat1
    /\ (lon2 - lon1) % 360 = 180
    /\ Abs(lat1) \in Float64AboveOne

\* R * pi / 180 * 2, in hundredths of a km: the distance of one degree of
\* asin(sqrt(a))
CentiKmPerDegree == 22239

\* lines 18-26, in hundredths of a km: R * 2 * atan2(sqrt(a), sqrt(1-a)) is
\* 2R asin(sqrt(a)); the arc sine is read off SinDeg, linear between entries
haversine_km(lon1, lat1, lon2, lat2) ==
    LET sq == ISqrt(Min(HaversineA(lon1, lat1, lon2, lat2), Unit * Unit))
        k  == CHOOSE k \in 0 .. 90 :
                  /\ SinDeg[k + 1] <= sq
                  /\ k < 90 => SinDeg[k + 2] > sq
    IN  IF k = 90 THEN CentiKmPerDegree * 90
        ELSE CentiKmPerDegree * k
                 + (CentiKmPerDegree * (sq - SinDeg[k + 1]))
                       \div (SinDeg[k + 2] - SinDeg[k + 1])

\* lines 52-56 and 105-109: the point of the unit sphere
UnitSphere(lat, lon) ==
    <<(Cos(lat) * Cos(lon)) \div Unit, (Cos(lat) * Sin(lon)) \div Unit,
      Sin(lat)>>

\* the square of the Euclidean distance cKDTree orders by
ChordSq(u, v) ==
    (u[1] - v[1]) * (u[1] - v[1]) + (u[2] - v[2]) * (u[2] - v[2])
        + (u[3] - v[3]) * (u[3] - v[3])

\* line 110: self._tree.query(..., k=1), the indices it may answer with
TreeNearest(q) ==
    {i \in 1 .. Len(ports) :
        \A k \in 1 .. Len(ports) :
            ChordSq(UnitSphere(q[1], q[2]), UnitSphere(ports[i][1], ports[i][2]))
                <= ChordSq(UnitSphere(q[1], q[2]),
                           UnitSphere(ports[k][1], ports[k][2]))}

\* lines 88-94: the first port of the least d
LinearBest(q) ==
    CHOOSE i \in 1 .. Len(ports) :
        /\ \A k \in 1 .. Len(ports) :
               haversine_km(q[2], q[1], ports[i][2], ports[i][1])
                   <= haversine_km(q[2], q[1], ports[k][2], ports[k][1])
        /\ \A k \in 1 .. i - 1 :
               haversine_km(q[2], q[1], ports[k][2], ports[k][1])
                   > haversine_km(q[2], q[1], ports[i][2], ports[i][1])

Raised(message) == [raised |-> message]

\* lines 95-102 and 114-121; round(d, 2) is the unit of haversine_km
PortResult(q, i) ==
    [lat |-> ports[i][1], lon |-> ports[i][2],
     distance_km |-> haversine_km(q[2], q[1], ports[i][2], ports[i][1])]

\* the places of the model's ports
Places ==
    {<<8, 0>>, <<-8, 180>>, <<0, 0>>, <<0, 20>>, <<40, 170>>, <<40, -170>>}

\* the coordinates the model asks about
Queries == Places \cup {<<0, 10>>, <<40, 180>>}

\* most ports of a collection
MaxPorts == 3

\* lines 83-84
FindNearestNoPorts ==
    /\ pc = "find_nearest"
    /\ ports = <<>>
    /\ \E q \in Queries : port_query' = q
    /\ port_result' = Raised("No ports available")
    /\ pc' = "find_nearest_raised"
    /\ UNCHANGED <<ports, tree, land_mask, requestVars, gridVars, escapeVars,
                   endpointVars, searchVars, path, smoothVars, response>>

\* lines 86-102: the linear scan; it takes the distance of every port
FindNearestLinear ==
    /\ pc = "find_nearest"
    /\ ports # <<>> /\ ~tree
    /\ \E q \in Queries :
          /\ port_query' = q
          /\ IF \E i \in 1 .. Len(ports) :
                    DomainError(q[2], q[1], ports[i][2], ports[i][1])
             THEN /\ port_result' = Raised("math domain error")
                  /\ pc' = "find_nearest_raised"
             ELSE /\ port_result' = PortResult(q, LinearBest(q))
                  /\ pc' = "find_nearest_returned"
    /\ UNCHANGED <<ports, tree, land_mask, requestVars, gridVars, escapeVars,
                   endpointVars, searchVars, path, smoothVars, response>>

\* lines 104-121: the tree answers, the distance of its port is taken
FindNearestTree ==
    /\ pc = "find_nearest"
    /\ ports # <<>> /\ tree
    /\ \E q \in Queries :
          /\ port_query' = q
          /\ \E i \in TreeNearest(q) :
                IF DomainError(q[2], q[1], ports[i][2], ports[i][1])
                THEN /\ port_result' = Raised("math domain error")
                     /\ pc' = "find_nearest_raised"
                ELSE /\ port_result' = PortResult(q, i)
                     /\ pc' = "find_nearest_returned"
    /\ UNCHANGED <<ports, tree, land_mask, requestVars, gridVars, escapeVars,
                   endpointVars, searchVars, path, smoothVars, response>>

FindNearest == FindNearestNoPorts \/ FindNearestLinear \/ FindNearestTree

\* a PortsIndex after _load (lines 40-59): the tree is built only over one
\* port or more, and only when SciPy is there
InitPorts ==
    /\ pc = "find_nearest"
    /\ ports \in UNION {[1 .. n -> Places] : n \in 0 .. MaxPorts}
    /\ tree \in BOOLEAN
    /\ tree => ports # <<>>
    /\ port_query = NoPoint /\ port_result = NoResult
    /\ land_mask = {}
    /\ lat0 = LatMin /\ swh = <<>> /\ ws = <<>>
    /\ NoRequest /\ NoEscape /\ NoSearch /\ NoSmoothing
    /\ valid_start = NoNode /\ valid_end = NoNode /\ speed = 0

SpecPorts == InitPorts /\ [][FindNearest]_vars

---------------------------------------------------------------------------
(* What the claims about a_star speak of *)

Returned == pc = "a_star_returned"

\* 8-neighbours: the indices differ by at most 1 each, and the nodes differ
Adjacent8(n, m) ==
    n # m /\ Abs(n[1] - m[1]) <= 1 /\ Abs(n[2] - m[2]) <= 1

Water == Nodes \ land_mask

RECURSIVE Closure(_)
\* the nodes an 8-connected sequence of in-bounds non-land nodes leads to
Closure(S) ==
    LET T == S \cup {m \in Water : \E n \in S : Adjacent8(n, m)}
    IN  IF T = S THEN S ELSE Closure(T)

Reachable == Closure({valid_start})

\* all 8 neighbours of n are nodes of the grid, and land
EightLandNeighbours(n) ==
    \A d \in Offsets : <<n[1] + d[1], n[2] + d[2]>> \in land_mask

RECURSIVE SumEdges(_, _)
SumEdges(p, k) ==
    IF k >= Len(p) THEN 0 ELSE EdgeCost(p[k], p[k + 1]) + SumEdges(p, k + 1)

\* total cost of a node path: the sum of its edges' costs
PathCost(p) == SumEdges(p, 1)

RECURSIVE Relax(_, _)
\* Bellman-Ford: the least cost of a path of at most k more edges
Relax(d, k) ==
    IF k = 0 THEN d
    ELSE Relax([m \in Nodes |->
                  LET into == {d[n] + EdgeCost(n, m) :
                                 n \in {x \in Nodes : d[x] < Inf
                                                     /\ m \in Water
                                                     /\ Adjacent8(x, m)}}
                  IN  IF into = {} THEN d[m]
                      ELSE Min(d[m], CHOOSE c \in into : \A o \in into : c <= o)]
               @@ <<>>, k - 1)

\* the least total cost of any land-free 8-connected path from start to n
LeastCost ==
    Relax([n \in Nodes |-> IF n = valid_start THEN 0 ELSE Inf] @@ <<>>,
          NumLon * NumLat)

IsPath == Returned /\ path # NoPath

\* C1 (as claimed): the path a_star returns is a minimum-cost path, its total
\* cost equals the least total cost of any land-free 8-connected path from
\* start to goal.
C1_ReturnedPathIsMinimumCost ==
    IsPath => PathCost(path) = LeastCost[valid_end]

\* C2: a_star returns None exactly when the frontier is exhausted without the
\* goal being popped, and that happens if and only if no 8-connected sequence
\* of in-bounds non-land nodes leads from start to goal; in particular it
\* returns None when all 8 neighbours of the goal are land and start is not
\* the goal.
C2_NoPathIffUnreachable ==
    Returned =>
        /\ (path = NoPath) <=> (open_set = {} /\ current[2] # valid_end)
        /\ (path = NoPath) <=> (valid_end \notin Reachable)
        /\ (EightLandNeighbours(valid_end) /\ valid_start # valid_end)
               => path = NoPath

\* C2 witness: the goal lies in a lagoon whose 8 neighbours are all land, the
\* start outside, and a_star has returned None
C2_Witness ==
    /\ Returned /\ path = NoPath
    /\ EightLandNeighbours(valid_end) /\ valid_start # valid_end

\* C3: a returned path runs from start to goal, each consecutive pair are
\* 8-neighbours inside the grid, no node after the first is land, and the
\* recorded g is non-decreasing from each node of the path to the next.
C3_PathIsConnectedAndMonotone ==
    IsPath =>
        /\ path[1] = valid_start
        /\ path[Len(path)] = valid_end
        /\ \A k \in 1 .. Len(path) : path[k] \in Nodes
        /\ \A k \in 1 .. Len(path) - 1 :
              /\ Adjacent8(path[k], path[k + 1])
              /\ path[k + 1] \notin land_mask
              /\ g_score[path[k]] <= g_score[path[k + 1]]

\* C3 witness: a returned path of at least four nodes on a grid with land
C3_Witness == IsPath /\ Len(path) >= 4 /\ land_mask # {}

---------------------------------------------------------------------------
(* What the claims about find_nearest_water_node speak of *)

EscapeReturned == pc = "escape_returned" /\ call = "direct"

\* Chebyshev distance: max of |di|, |dj|
Chebyshev(n, m) == Max(Abs(n[1] - m[1]), Abs(n[2] - m[2]))

WaterWithin(k) == {n \in Nodes \ land_mask : Chebyshev(n, query) <= k}

\* C4: find_nearest_water_node returns the query node itself when it is not
\* land; when it is land and some in-bounds non-land node lies within k rings
\* of it, the function returns an in-bounds non-land node at Chebyshev
\* distance at most k from the query node.
C4_EscapeWithinKRings ==
    EscapeReturned =>
        /\ query \notin land_mask => found = query
        /\ query \in land_mask =>
              \A k \in 1 .. NumLon + NumLat :
                  WaterWithin(k) # {} =>
                      /\ found \in Nodes \ land_mask
                      /\ Chebyshev(found, query) <= k

\* C4 witness: a land query node whose nearest water lies two or more rings
\* away, and the node returned
C4_Witness ==
    /\ EscapeReturned /\ query \in land_mask /\ found # NoNode
    /\ WaterWithin(1) = {}

\* C5: find_nearest_water_node returns None only after search_radius has run
\* from 1 up to max(W, H) without meeting a navigable node, that is only when
\* the grid holds no non-land node at all: if any node is not land, it
\* returns a node.
C5_EscapeFailsOnlyWithoutWater ==
    EscapeReturned =>
        /\ found = NoNode => search_radius = Max(NumLon, NumLat)
        /\ (found = NoNode) <=> (Nodes \ land_mask = {})

\* C5 witness: a grid of land only, and None returned
C5_Witness == EscapeReturned /\ found = NoNode /\ land_mask = Nodes


---------------------------------------------------------------------------
(* What the claims about optimize_route and smooth_path speak of *)

Responded == pc = "responded"

Succeeded == Responded /\ response.status = 200

\* both calls of find_nearest_water_node have returned, one of them with None
EscapeFailed ==
    /\ call = "end" /\ pc \in {"endpoints", "responded"}
    /\ (valid_start = NoNode \/ valid_end = NoNode)

\* a_star has run and has emptied its frontier
FrontierExhausted ==
    /\ pc \in {"a_star_returned", "responded"}
    /\ g_score # <<>> /\ path = NoPath

IsFailure(r) ==
    /\ DOMAIN r = {"status", "error"}
    /\ r.status \in {400, 404, 500}

IsCompleteRoute(r) ==
    /\ {"status", "optimized_route", "distance"} \subseteq DOMAIN r
    /\ "error" \notin DOMAIN r
    /\ r.status = 200
    /\ Len(r.optimized_route) >= 2
    /\ r.distance >= 0

\* C6: an invocation of optimize_route ends in exactly one outcome, a complete
\* route with its distance or one failure, and nothing follows it; when
\* find_nearest_water_node fails for the start or the end the outcome is the
\* on-land rejection and a_star has not run; when a_star empties its frontier
\* the outcome is the no-viable-route failure, told apart from the on-land
\* rejection; a failure carries neither a route nor a distance.
C6_ExactlyOneOutcome ==
    /\ (response # NoResponse) <=> Responded
    /\ Responded =>
          /\ ~ENABLED Next
          /\ IsCompleteRoute(response) \/ IsFailure(response)
          /\ EscapeFailed => (response = OnLandResponse /\ NoSearch)
          /\ FrontierExhausted =>
                /\ IsFailure(response)
                /\ response.status = 404
                /\ response.error # OnLandResponse.error
          /\ (IsFailure(response) /\ response.error = OnLandResponse.error)
                => EscapeFailed
          /\ IsCompleteRoute(response) =>
                (~EscapeFailed /\ ~FrontierExhausted)

\* a_star emptied its frontier and the request was answered
C6_Witness == Responded /\ FrontierExhausted /\ valid_start # valid_end

\* C7: a route the pipeline answers with starts at the caller's start
\* coordinate and ends at the caller's end coordinate, whatever the length of
\* the node path; and what smooth_path returns starts and ends as its input
\* does, for every input of one or more points.
C7_RouteEndsAtCallerCoordinates ==
    /\ Succeeded =>
          /\ response.optimized_route[1] = start_port
          /\ response.optimized_route[Len(response.optimized_route)] = end_port
    /\ pc = "smoothed" =>
          /\ smoothed_path # <<>>
          /\ smoothed_path[1] = path_points[1]
          /\ smoothed_path[Len(smoothed_path)] = path_points[Len(path_points)]

\* a spline-smoothed route of a path of 4 nodes or more, asked for from a
\* coordinate that is no grid node, the fit leaving a residual
C7_Witness ==
    /\ Succeeded
    /\ Len(path) >= 4
    /\ Len(response.optimized_route) = NumPoints
    /\ start_port # <<Lon(valid_start[1]), Lat(valid_start[2])>>
    /\ response.optimized_route[2] # SplinePoint(path_points, 2, 0)

\* the request's two points snap to one node, which is water
SameNavigableNode ==
    /\ has_data /\ AllFields
    /\ find_nearest_index(start_port) = find_nearest_index(end_port)
    /\ find_nearest_index(start_port) \notin land_mask

\* C8: when start and end snap to the same navigable node, a_star returns
\* the path of that one node, and the smoother hands back exactly the two
\* endpoint coordinates, unsmoothed.
C8_SameNodeGivesTwoPointRoute ==
    SameNavigableNode =>
        /\ (pc = "a_star_returned" \/ (g_score # <<>> /\ Responded)) =>
               path = <<find_nearest_index(start_port)>>
        /\ pc = "smoothed" => smoothed_path = <<start_port, end_port>>
        /\ (Responded /\ g_score # <<>>) =>
               /\ IsCompleteRoute(response)
               /\ response.optimized_route = <<start_port, end_port>>

\* such a request, of two different coordinates, has been answered
C8_Witness ==
    /\ SameNavigableNode /\ Succeeded
    /\ start_port # end_port

\* find_nearest has returned or raised
PortsAnswered == pc \in {"find_nearest_returned", "find_nearest_raised"}

\* C9: over a collection of one port or more find_nearest returns, for every
\* query and in both modes, a port of the collection whose haversine distance
\* to the query is least (so less than every other port's when the least is
\* unique) and reports that distance; the distance of a stored port's own
\* coordinate is 0.00; over no ports it fails with 'No ports available'.
C9_FindNearestReturnsNearest ==
    PortsAnswered =>
        IF ports = <<>>
        THEN port_result = Raised("No ports available")
        ELSE /\ pc = "find_nearest_returned"
             /\ DOMAIN port_result = {"lat", "lon", "distance_km"}
             /\ \E i \in 1 .. Len(ports) :
                   ports[i] = <<port_result.lat, port_result.lon>>
             /\ port_result.distance_km =
                   haversine_km(port_query[2], port_query[1],
                                port_result.lon, port_result.lat)
             /\ \A k \in 1 .. Len(ports) :
                   port_result.distance_km <=
                       haversine_km(port_query[2], port_query[1],
                                    ports[k][2], ports[k][1])
             /\ (\E k \in 1 .. Len(ports) : ports[k] = port_query) =>
                   port_result.distance_km = 0

\* the request names a ship type SPEED_SCALING does not know
UnknownClass ==
    /\ has_data /\ AllFields
    /\ Lower(ship_type) \notin {"passenger ship", "cargo ship", "tanker"}

\* C10: a request of an unknown vessel-speed class ends in the
\* configuration-error outcome without find_nearest_water_node or a_star
\* having run, whatever the land mask and the endpoints, and in no route and
\* no other failure.
C10_UnknownClassSurfacedImmediately ==
    UnknownClass =>
        /\ NoEscape /\ NoSearch
        /\ Responded =>
              /\ IsFailure(response)
              /\ response.status = 500


---------------------------------------------------------------------------
(* What the claims about the frontier of a_star speak of *)

\* the loop has just expanded the node of the entry it popped, and that
\* entry is not the one line 143 pushed for the start
Expanded ==
    /\ pc = "a_star_loop"
    /\ current # NoEntry
    /\ current[2] # valid_start

\* C11: a node is pushed again with its new f each time its g improves and
\* a stale entry is skipped when popped, so every expansion of a node
\* happens at the priority g(node) + h(node) of its best g at that time.
C11_ExpansionAtCurrentBestPriority ==
    Expanded =>
        current[1] = g_score[current[2]] + Heuristic(current[2])


\* every edge a_star may relax has a cost above 0
PositiveCosts ==
    \A n \in Nodes \ land_mask : \A m \in Nodes \ land_mask :
        Adjacent8(n, m) =>
            Hav(Lon(n[1]), Lat(n[2]), Lon(m[1]), Lat(m[2])) > 0

RECURSIVE WalkEnds(_, _)
\* following came_from from n comes to a node without predecessor within
\* fuel steps
WalkEnds(n, fuel) ==
    IF came_from[n] = NoNode THEN TRUE
    ELSE IF fuel = 0 THEN FALSE
    ELSE WalkEnds(came_from[n], fuel - 1)

\* the predecessor links form no cycle and the start has none
PredecessorsWellFounded ==
    g_score # <<>> =>
        /\ came_from[valid_start] = NoNode
        /\ \A n \in Nodes : WalkEnds(n, Cardinality(Nodes))

\* what a_star has returned is None or a whole path from start to goal
ReturnedPathOrNone ==
    Returned =>
        \/ path = NoPath
        \/ /\ path[1] = valid_start /\ path[Len(path)] = valid_end
           /\ \A k \in 1 .. Len(path) : path[k] \in Nodes

\* C12: on a finite grid whose edge costs are above 0 every call of a_star
\* returns, a path after popping the goal or None after emptying the
\* frontier; meanwhile the predecessor links never form a cycle and the
\* start never gets a predecessor, so the walk back ends too.
C12_AStarTerminates ==
    /\ [](PositiveCosts => (PredecessorsWellFounded /\ ReturnedPathOrNone))
    /\ <>(PositiveCosts => Returned)

\* a path was returned after the search had scored 8 nodes or more
C12_Witness ==
    /\ PositiveCosts /\ IsPath /\ Len(path) >= 3
    /\ Cardinality({n \in Nodes : g_score[n] < Inf}) >= 8

====
